---- MODULE Spec2Model ----
(***************************************************************************)
(* The version history ledger of update_history.py: update_history_entry   *)
(* applied to a ledger's history list, from the empty ledger that          *)
(* load_history returns for a missing file (Spec), and from a ledger file  *)
(* with arbitrary contents (SpecLoaded).                                   *)
(***************************************************************************)
EXTENDS Integers, Sequences, FiniteSets, TLC

\* ---------------------------------------------------------------- bounds
MaxVersions == 3    \* distinct firmware version strings passed to update
MaxDay == 2         \* datetime.now() yields a day in 1..MaxDay
MaxLoaded == 2      \* records in a ledger file that update did not write
MaxDriverVersions == 2  \* distinct version strings on the driver's command line
MaxCandidates == 2  \* versions the catalog lists for one device label and region
MaxDevices == 2     \* devices in the metadata verify_all iterates over

VersionNames == <<"v1", "v2", "v3", "v4", "v5">>
Versions == {VersionNames[i] : i \in 1..MaxVersions}
Days == 1..MaxDay

\* The arb, major and minor passed along with a version.  They are the
\* analysis result of that version's image, so a version always comes with
\* the same triple (v1 with 0/3/0, v2 with 1/3/0, ...); update_history_entry
\* copies them into a new record and never reads them.
AnalysisOf(version) ==
    LET n == CHOOSE i \in 1..Len(VersionNames) : VersionNames[i] = version
    IN  [arb |-> (n + 1) % 2, major |-> 3, minor |-> 0]

\* ---------------------------------------------------------------- helpers
Indices(h) == 1..Len(h)

\* The positions and the versions of the records of h whose status is current.
CurrentIndices(h) == {i \in Indices(h) : h[i].status = "current"}
CurrentVersions(h) == {h[i].version : i \in CurrentIndices(h)}

VersionsOf(h) == {h[i].version : i \in Indices(h)}
VersionSeq(h) == [i \in Indices(h) |-> h[i].version]

\* h without its element at position i.
RemoveAt(h, i) == [j \in 1..(Len(h) - 1) |-> IF j < i THEN h[j] ELSE h[j + 1]]

\* ------------------------------------------------- update_history_entry
FindVersion_archived(h, version) ==
    IF \E i \in Indices(h) : h[i].version = version /\ h[i].status = "archived"
    THEN CHOOSE i \in Indices(h) :
            /\ h[i].version = version /\ h[i].status = "archived"
            /\ \A j \in 1..(i - 1) :
                    ~(h[j].version = version /\ h[j].status = "archived")
    ELSE 0

FindVersion_head(h, version) ==
    IF Len(h) > 0 /\ h[1].version = version THEN 1 ELSE 0

\* `for entry in history['history']: if entry['version'] == version`:
\* the position of the first record with this version, 0 when the loop
\* falls through.
FindVersion(h, version) ==
    IF \E i \in Indices(h) : h[i].version = version
    THEN CHOOSE i \in Indices(h) :
            /\ h[i].version = version
            /\ \A j \in 1..(i - 1) : h[j].version # version
    ELSE 0

Refresh_first_seen(h, i, day) ==
    [h EXCEPT ![i].last_checked = day, ![i].first_seen = day]

\* `entry['last_checked'] = today`
Refresh(h, i, day) == [h EXCEPT ![i].last_checked = day]

ArchiveAll_none(h) == h

ArchiveAll_reset(h) ==
    [i \in Indices(h) |-> [h[i] EXCEPT !.status = "archived", !.arb = 0]]

\* `for e in history['history']: e['status'] = 'archived'`
ArchiveAll(h) == [i \in Indices(h) |-> [h[i] EXCEPT !.status = "archived"]]

ListRemove_head(h, i) == RemoveAt(h, 1)

\* `history['history'].remove(entry)`: list.remove drops the first element
\* that compares equal to entry (dict equality), entry being the record at i.
ListRemove(h, i) ==
    RemoveAt(h, CHOOSE k \in Indices(h) :
                    /\ h[k] = h[i]
                    /\ \A j \in 1..(k - 1) : h[j] # h[i])

InsertFront_end(h, entry) == Append(h, entry)

InsertFront_replace(h, entry) == <<entry>> \o SubSeq(h, 2, Len(h))

\* `history['history'].insert(0, entry)`
InsertFront(h, entry) == <<entry>> \o h

AppendEnd_front(h, entry) == <<entry>> \o h

\* `history['history'].append(new_entry)`
AppendEnd(h, entry) == Append(h, entry)

Promote_in_place(h, i) ==
    LET archived == ArchiveAll(h)
    IN  [archived EXCEPT ![i].status = "current"]

Promote_none(h, i) == h

Promote_keep(h, i) ==
    LET marked == [h EXCEPT ![i].status = "current"]
    IN  InsertFront(ListRemove(marked, i), marked[i])

\* The promotion branch: archive every record, mark the matched one current,
\* move it to the top.
Promote(h, i) ==
    LET archived == ArchiveAll(h)
        marked == [archived EXCEPT ![i].status = "current"]
    IN  InsertFront(ListRemove(marked, i), marked[i])

NewEntry_current(version, arb, major, minor, is_historical, day) ==
    [version |-> version, arb |-> arb, major |-> major, minor |-> minor,
     first_seen |-> day, last_checked |-> day, status |-> "current"]

\* The dict literal new_entry.
NewEntry(version, arb, major, minor, is_historical, day) ==
    [version |-> version, arb |-> arb, major |-> major, minor |-> minor,
     first_seen |-> day, last_checked |-> day,
     status |-> IF is_historical THEN "archived" ELSE "current"]

\* update_history_entry: the history list after the call, the value
\* returned, and the return statement the call left through.
update_history_entry(h, version, arb, major, minor, is_historical, day) ==
    LET i == FindVersion(h, version) IN
    IF i # 0
    THEN LET checked == Refresh(h, i, day) IN
         IF ~is_historical /\ h[i].status = "archived"
         THEN [history |-> Promote(checked, i), ret |-> TRUE, branch |-> "promote"]
         ELSE [history |-> checked, ret |-> FALSE, branch |-> "refresh"]
    ELSE LET new_entry == NewEntry(version, arb, major, minor, is_historical, day) IN
         IF ~is_historical
         THEN [history |-> InsertFront(ArchiveAll(h), new_entry), ret |-> TRUE,
               branch |-> "insert"]
         ELSE [history |-> AppendEnd(h, new_entry), ret |-> FALSE,
               branch |-> "append"]

\* ---------------------------------------------------------------- state
VARIABLES
    history,    \* history['history'] of the ledger being updated
    today,      \* the day the last call read from datetime.now()
    args,       \* the arguments of the last call
    ret,        \* the value the last call returned
    branch,     \* the return statement the last call left through
    live_seen,  \* some non-historical call has been applied to the ledger
    ledger_file,\* data/history/<device_short>_<variant>.json as it is on disk
    run,        \* what the last invocation of the driver did
    pc,         \* where the resolution in progress stands
    request,    \* device id, region and target version of the resolution
    strategies, \* the strategies invoked by the resolution, in order
    net,        \* the network requests issued by the resolution, in order
    replies,    \* what the network answered to each of them
    found,      \* what the running strategy has established so far
    result,     \* the outcome of the resolution
    meta,       \* DEVICE_METADATA as verify_all iterates over it
    launched,   \* the fetch commands verify_all has run, in order
    results,    \* verify_all's results list
    report,     \* what verify_all printed after the table
    writers,    \* the driver invocations in progress on the ledger file
    ini,        \* the lines parse_ini_section is given
    pairs       \* what parse_ini_section returned

ledgerVars == <<history, today, args, ret, branch, live_seen>>
driverVars == <<ledger_file, run>>
locatorVars == <<pc, request, strategies, net, replies, found, result>>
verifyVars == <<meta, launched, results, report>>
overlapVars == <<writers>>
parseVars == <<ini, pairs>>
auxVars == <<verifyVars, overlapVars, parseVars>>

vars ==
    <<history, today, args, ret, branch, live_seen, ledger_file, run,
      pc, request, strategies, net, replies, found, result,
      meta, launched, results, report, writers, ini, pairs>>

\* The record update_history_entry builds and keeps in history['history'].
Records ==
    [version : Versions, arb : 0..1, major : {3}, minor : {0},
     first_seen : Days, last_checked : Days, status : {"current", "archived"}]

TypeOK ==
    /\ history \in Seq(Records)
    /\ today \in Days
    /\ ret \in BOOLEAN
    /\ branch \in {"none", "promote", "refresh", "insert", "append"}
    /\ live_seen \in BOOLEAN
    /\ args.is_historical \in BOOLEAN
    /\ branch # "none" => args.version \in Versions

NoArgs == [version |-> "", arb |-> 0, major |-> 0, minor |-> 0, is_historical |-> FALSE]

\* load_history on a missing file: {"history": []}.
load_history_missing == <<>>

\* load_history on an existing file returns whatever json.load finds in it,
\* the file being one that update did not write: a list of records of
\* distinct versions, the status of each unconstrained.
LoadedRecords ==
    {[version |-> v, arb |-> AnalysisOf(v).arb, major |-> AnalysisOf(v).major,
      minor |-> AnalysisOf(v).minor, first_seen |-> 1, last_checked |-> 1,
      status |-> st] : v \in Versions, st \in {"current", "archived"}}

load_history_existing ==
    {h \in UNION {[1..n -> LoadedRecords] : n \in 0..MaxLoaded} :
        \A i, j \in 1..Len(h) : h[i].version = h[j].version => i = j}

\* Python's None; a value v that is there is <<v>>.
None == <<>>

\* No ledger file on disk.
NoFile ==
    [kind |-> "missing", device |-> None, device_id |-> None, region |-> None,
     model |-> None, history |-> <<>>]

\* No invocation of the driver yet.
NoRun ==
    [exit |-> "none", loaded |-> FALSE, saved |-> FALSE, wrote_ids |-> FALSE,
     is_new |-> FALSE, mode |-> "none", device_short |-> None,
     version |-> None, arb |-> None]

DriverIdle ==
    /\ ledger_file = NoFile
    /\ run = NoRun

\* The locator's failure outcome, and the shape of a descriptor.
NOT_FOUND == [found |-> FALSE, raised |-> FALSE, url |-> <<>>, version |-> <<>>]

Descriptor(url, version) ==
    [found |-> TRUE, raised |-> FALSE, url |-> url, version |-> version]

\* Nothing established yet by a strategy.
NothingFound ==
    [url |-> <<>>, label |-> None, region |-> None, matched |-> FALSE,
     candidates |-> <<>>, version |-> None]

\* verify_all not started, no invocation in progress, nothing parsed.
VerifyIdle ==
    /\ meta = <<>>
    /\ launched = <<>>
    /\ results = <<>>
    /\ report = "none"

OverlapIdle == writers = <<>>

ParseIdle ==
    /\ ini = <<>>
    /\ pairs = <<>>

AuxIdle ==
    /\ VerifyIdle
    /\ OverlapIdle
    /\ ParseIdle

\* No resolution asked for yet.
LocatorIdle ==
    /\ pc = "idle"
    /\ request = [device_id |-> "", region |-> "", target |-> None]
    /\ strategies = <<>>
    /\ net = <<>>
    /\ replies = <<>>
    /\ found = NothingFound
    /\ result = NOT_FOUND

LedgerIdle ==
    /\ today = 1
    /\ args = NoArgs
    /\ ret = FALSE
    /\ branch = "none"
    /\ live_seen = FALSE

NoCall ==
    /\ DriverIdle
    /\ LedgerIdle
    /\ LocatorIdle
    /\ AuxIdle

Init ==
    /\ history = load_history_missing
    /\ NoCall

InitLoaded ==
    /\ history \in load_history_existing
    /\ NoCall

\* One call of update_history_entry on the ledger, day being the day it reads
\* from the clock.
Update(version, is_historical, day) ==
    LET a == AnalysisOf(version)
        r == update_history_entry(history, version, a.arb, a.major, a.minor,
                                  is_historical, day)
        call == [version |-> version, arb |-> a.arb, major |-> a.major,
                 minor |-> a.minor, is_historical |-> is_historical]
    IN  /\ history' = r.history
        /\ ret' = r.ret
        /\ branch' = r.branch
        /\ today' = day
        /\ args' = call
        /\ live_seen' = (live_seen \/ ~is_historical)
        /\ UNCHANGED <<driverVars, locatorVars, auxVars>>

\* A live check: is_historical is False.  The clock does not run backwards
\* between calls.
UpdateLive ==
    \E version \in Versions, day \in Days :
        /\ day >= today
        /\ Update(version, FALSE, day)

\* A backfill: --historical.
UpdateHistorical ==
    \E version \in Versions, day \in Days :
        /\ day >= today
        /\ Update(version, TRUE, day)

Next == UpdateLive \/ UpdateHistorical

Spec == Init /\ [][Next]_vars

SpecLoaded == InitLoaded /\ [][Next]_vars

\* The versions the driver is invoked with.
DriverVersions == {VersionNames[i] : i \in 1..MaxDriverVersions}

\* Calls whose arb, major and minor are not tied to the version: the caller
\* passes one of two analyses with either of two versions.
AnalysedVersions == {VersionNames[1], VersionNames[2]}

Analyses ==
    {[arb |-> 0, major |-> 3, minor |-> 0], [arb |-> 1, major |-> 4, minor |-> 1]}

UpdateWith ==
    \E version \in AnalysedVersions, a \in Analyses, is_historical \in BOOLEAN,
       day \in Days :
        LET r == update_history_entry(history, version, a.arb, a.major, a.minor,
                                      is_historical, day)
        IN  /\ day >= today
            /\ history' = r.history
            /\ ret' = r.ret
            /\ branch' = r.branch
            /\ today' = day
            /\ args' = [version |-> version, arb |-> a.arb, major |-> a.major,
                        minor |-> a.minor, is_historical |-> is_historical]
            /\ live_seen' = (live_seen \/ ~is_historical)
            /\ UNCHANGED <<driverVars, locatorVars, auxVars>>

NextAnalyses == UpdateWith

SpecAnalyses == Init /\ [][NextAnalyses]_vars

\* ------------------------------------------------------------ the driver
\* Truth value of an argument: None and the empty string are false.
Truthy(x) == x # None /\ x # <<"">>

\* a or b
Or(a, b) == IF Truthy(a) THEN a ELSE b

\* config.get_display_name and config.get_model_number for the devices of
\* DEVICE_METADATA the driver is run for.
get_display_name(device_id) ==
    IF device_id = "15" THEN "OnePlus 15" ELSE "OnePlus " \o device_id

get_model_number(device_id, region) ==
    IF device_id = "15" /\ region = "GLO" THEN "CPH2747" ELSE "Unknown"

\* A command line of update_history.py: the positional arguments, each None
\* when left out, the content of --json-file (kind "none" without the
\* option, "unreadable" when opening or parsing it raises), and --historical.
NoJson ==
    [kind |-> "none", device_short |-> None, variant |-> None, version |-> None,
     arb_index |-> None, arb |-> None]

\* The arb values that may come with a version (see AnalysisOf), or none.
ArbChoices(version) ==
    {None} \cup
    (IF version # None /\ version[1] \in DriverVersions
     THEN {<<AnalysisOf(version[1]).arb>>} ELSE {<<0>>})

OptVersions == {None, <<"">>} \cup {<<v>> : v \in DriverVersions}

\* The positionals are filled from the left: one that is left out leaves
\* out those after it. An empty string is an argument that is there.
PositionalCommands ==
    {c \in [device_short : {None, <<"">>, <<"15">>}, variant : {None, <<"GLO">>},
            version : OptVersions, arb : {None, <<0>>, <<1>>},
            major : {None, <<3>>}, minor : {None, <<0>>},
            json_file : {NoJson}, historical : BOOLEAN] :
        /\ c.arb \in ArbChoices(c.version)
        /\ (c.device_short = None) <=> (c.variant = None)
        /\ c.variant = None => c.version = None
        /\ c.version = None => c.arb = None
        /\ c.arb = None => c.major = None
        /\ (c.major = None) <=> (c.minor = None)}

\* The files carry the major and minor of the analysis along with the arb.
JsonFiles ==
    {[NoJson EXCEPT !.kind = "unreadable"]} \cup
    {[kind |-> "data", device_short |-> d, variant |-> <<"GLO">>, version |-> v,
      arb_index |-> ai, arb |-> a] :
        d \in {None, <<"15">>}, v \in {None} \cup {<<w>> : w \in DriverVersions},
        ai \in {None, <<0>>, <<1>>}, a \in {None, <<0>>, <<1>>}}

JsonCommands ==
    {c \in [device_short : {None, <<"15">>}, variant : {None, <<"GLO">>},
            version : {None, <<VersionNames[1]>>}, arb : {None},
            major : {None}, minor : {None},
            json_file : JsonFiles, historical : {FALSE}] :
        LET v == Or(c.json_file.version, c.version)
        IN  /\ (c.device_short = None) <=> (c.variant = None)
            /\ (c.variant = None) <=> (c.version = None)
            /\ c.version # None => c.json_file.version = None
            /\ c.json_file.arb_index \in ArbChoices(v)
            /\ c.json_file.arb \in ArbChoices(v)}

\* all([device_short, variant, version, arb is not None])
RequiredPresent_arb_truthy(device_short, variant, version, arb) ==
    /\ Truthy(device_short)
    /\ Truthy(variant)
    /\ Truthy(version)
    /\ arb # None /\ arb # <<0>>

RequiredPresent(device_short, variant, version, arb) ==
    /\ Truthy(device_short)
    /\ Truthy(variant)
    /\ Truthy(version)
    /\ arb # None

\* data.get('arb_index') if it is not None, else data.get('arb'); int() of
\* None raises.
JsonArb(data) ==
    IF data.arb_index # None THEN data.arb_index ELSE data.arb

\* load_history: the parsed file when it exists, an empty ledger when it
\* does not; parsing a malformed file raises.
load_history_lenient(file) ==
    IF file.kind = "ledger"
    THEN [raised |-> FALSE, data |-> file]
    ELSE [raised |-> FALSE, data |-> [NoFile EXCEPT !.kind = "ledger"]]

load_history(file) ==
    IF file.kind = "malformed"
    THEN [raised |-> TRUE, data |-> file]
    ELSE IF file.kind = "ledger"
         THEN [raised |-> FALSE, data |-> file]
         ELSE [raised |-> FALSE, data |-> [NoFile EXCEPT !.kind = "ledger"]]

\* save_history: the file holds the ledger afterwards.
save_history(data) == [data EXCEPT !.kind = "ledger"]

\* The four identity fields of a ledger whose device is not set.
LacksDevice_never(data) == TRUE

LacksDevice(data) == ~Truthy(data.device)

WriteIdentity(data, device_short, variant) ==
    [data EXCEPT !.device = <<get_display_name(device_short)>>,
                 !.device_id = <<device_short>>,
                 !.region = <<variant>>,
                 !.model = <<get_model_number(device_short, variant)>>]

\* What an invocation leaves behind: the file, and how it ended.
Outcome(file, exit, loaded, saved, wrote_ids, is_new) ==
    [file |-> file, exit |-> exit, loaded |-> loaded, saved |-> saved,
     wrote_ids |-> wrote_ids, is_new |-> is_new]

Failed(file, exit, loaded) == Outcome(file, exit, loaded, FALSE, FALSE, FALSE)

\* main() from the loaded ledger on: identity fields, the update, the save.
\* v holds device_short, variant, version, arb, major and minor as main has
\* them at line 121; int(major) or int(minor) of a missing positional raises
\* before the save.
Record(file, v, is_historical, day) ==
    LET loaded == load_history(file)
    IN  IF loaded.raised THEN Failed(file, "load_error", FALSE)
        ELSE LET lacks == LacksDevice(loaded.data)
                 data == IF lacks
                         THEN WriteIdentity(loaded.data, v.device_short[1],
                                            v.variant[1])
                         ELSE loaded.data
             IN  IF v.major = None \/ v.minor = None
                 THEN Failed(file, "type_error", TRUE)
                 ELSE LET r == update_history_entry(data.history, v.version[1],
                                                    v.arb[1], v.major[1],
                                                    v.minor[1], is_historical,
                                                    day)
                      IN  Outcome(save_history([data EXCEPT
                                                  !.history = r.history]),
                                  "ok", TRUE, TRUE, lacks, r.ret)

main(file, c, day) ==
    LET data == c.json_file
    IN  IF data.kind = "none"
        THEN IF ~RequiredPresent(c.device_short, c.variant, c.version, c.arb)
             THEN Failed(file, "usage", FALSE)
             ELSE Record(file, c, c.historical, day)
        ELSE IF data.kind = "unreadable" \/ JsonArb(data) = None
        THEN Failed(file, "json_error", FALSE)
        ELSE LET device_short == Or(data.device_short, c.device_short)
                 variant == Or(data.variant, c.variant)
                 version == Or(data.version, c.version)
                 arb == JsonArb(data)
             IN  IF ~RequiredPresent(device_short, variant, version, arb)
                 THEN Failed(file, "json_missing", FALSE)
                 ELSE Record(file,
                             [device_short |-> device_short, variant |-> variant,
                              version |-> version, arb |-> arb,
                              major |-> <<AnalysisOf(version[1]).major>>,
                              minor |-> <<AnalysisOf(version[1]).minor>>],
                             c.historical, day)

\* The values the invocation works with: those of the JSON file where it
\* gives them, the positional ones otherwise.
Effective(c) ==
    IF c.json_file.kind = "none"
    THEN [device_short |-> c.device_short, version |-> c.version, arb |-> c.arb]
    ELSE [device_short |-> Or(c.json_file.device_short, c.device_short),
          version |-> Or(c.json_file.version, c.version),
          arb |-> JsonArb(c.json_file)]

\* Ledger files the driver may find that it did not write itself.
Malformed == [NoFile EXCEPT !.kind = "malformed"]

ForeignHistories ==
    {<<>>, <<NewEntry(VersionNames[2], AnalysisOf(VersionNames[2]).arb,
                      AnalysisOf(VersionNames[2]).major,
                      AnalysisOf(VersionNames[2]).minor, FALSE, 1)>>}

ForeignLedgers ==
    {[kind |-> "ledger", device |-> d, device_id |-> d, region |-> d,
      model |-> d, history |-> h] :
        d \in {None, <<"">>, <<"Custom">>}, h \in ForeignHistories}

InitialFiles == {NoFile, Malformed} \cup ForeignLedgers

InitDriver ==
    /\ history = load_history_missing
    /\ LedgerIdle
    /\ ledger_file \in InitialFiles
    /\ run = NoRun
    /\ LocatorIdle
    /\ AuxIdle

\* One invocation of update_history.py with command line c.
Invoke(c) ==
    LET o == main(ledger_file, c, today)
        e == Effective(c)
    IN  /\ ledger_file' = o.file
        /\ run' = [exit |-> o.exit, loaded |-> o.loaded, saved |-> o.saved,
                   wrote_ids |-> o.wrote_ids, is_new |-> o.is_new,
                   mode |-> IF c.json_file.kind = "none" THEN "positional"
                            ELSE "json",
                   device_short |-> e.device_short, version |-> e.version,
                   arb |-> e.arb]
        /\ UNCHANGED <<ledgerVars, locatorVars, auxVars>>

InvokePositional ==
    \E c \in PositionalCommands :
        /\ c.json_file.kind = "none"
        /\ Invoke(c)

InvokeJson ==
    \E c \in JsonCommands :
        /\ c.json_file.kind # "none"
        /\ Invoke(c)

NextDriver == InvokePositional \/ InvokeJson

SpecDriver == InitDriver /\ [][NextDriver]_vars

DriverTypeOK ==
    /\ ledger_file.kind \in {"missing", "malformed", "ledger"}
    /\ ledger_file.history \in Seq(Records)
    /\ run.exit \in {"none", "ok", "usage", "json_error", "json_missing",
                     "load_error", "type_error"}

\* ------------------------------------------------- the firmware locator
\* fetch_firmware.py, after spec.md 4.1-4.3. Texts are sequences of
\* characters, so that trimming and prefix tests are computed.
Whitespace == {" ", "\n", "\t"}

\* str.strip()
strip_not(text) == text

strip(text) ==
    LET kept == {i \in 1..Len(text) : text[i] \notin Whitespace}
    IN  IF kept = {} THEN <<>>
        ELSE SubSeq(text, CHOOSE i \in kept : \A j \in kept : i <= j,
                          CHOOSE i \in kept : \A j \in kept : i >= j)

\* str.startswith(prefix)
startswith_always(text, prefix) == TRUE

startswith(text, prefix) ==
    /\ Len(text) >= Len(prefix)
    /\ SubSeq(text, 1, Len(prefix)) = prefix

HttpScheme == <<"h", "t", "t", "p">>

\* text contains part as a contiguous run of characters
Contains(text, part) ==
    \E i \in 0..(Len(text) - Len(part)) : SubSeq(text, i + 1, i + Len(part)) = part

\* html.unescape, on texts in which an escaped ampersand is one character.
unescape(text) == [i \in 1..Len(text) |-> IF text[i] = "&amp;" THEN "&" ELSE text[i]]

\* 4.1 Version Matcher: select(candidates, target), None being NOT_FOUND.
select_substring(candidates, target) ==
    IF Len(candidates) = 0 THEN None
    ELSE IF target = None THEN <<candidates[1]>>
    ELSE IF \E i \in 1..Len(candidates) : Contains(candidates[i], target[1])
         THEN target
         ELSE None

select(candidates, target) ==
    IF Len(candidates) = 0 THEN None
    ELSE IF target = None THEN <<candidates[1]>>
    ELSE IF \E i \in 1..Len(candidates) : candidates[i] = target[1]
         THEN target
         ELSE None

\* The version strings of the upstream catalog, and the lists it may give.
CatalogVersions == {<<"A">>, <<"A", "B">>, <<"B">>}

CandidateLists == UNION {[1..n -> CatalogVersions] : n \in 0..MaxCandidates}

TargetVersions == {<<"A">>, <<"B">>, <<"C">>}

\* config.OOS_MAPPING and config.SPRING_MAPPING; an id OOS_MAPPING does not
\* know passes through.
OosId(device_id) == IF device_id = "15" THEN "oneplus_15" ELSE device_id

SpringLabel(device_id) ==
    IF OosId(device_id) = "oneplus_15" THEN <<"OP 15">> ELSE None

\* What the network may answer. A reply that is not "ok" is an exception
\* raised by the request: a connection error, a timeout, or the error that
\* a non-success HTTP status is turned into.
NoPage == [kind |-> "none", devices |-> <<>>, url_attr |-> <<>>, version |-> <<>>]

Failures ==
    {[status |-> st, text |-> <<>>, page |-> NoPage] :
        st \in {"exception", "timeout", "http_error"}}

UrlTexts ==
    {<<>>, <<" ">>, HttpScheme \o <<":", "u">>,
     <<" ">> \o HttpScheme \o <<":", "u", "\n">>, <<"n", "o", "t">>,
     <<"f", "t", "p", ":", "u">>}

VersionTexts == {<<>>, <<" ", "\n">>, <<"A">>, <<" ", "A", "\n">>}

TextReplies(texts) ==
    Failures \cup {[status |-> "ok", text |-> t, page |-> NoPage] : t \in texts}

\* The landing page: its data-devices attribute may be missing, may not be
\* JSON, or holds {label: {region: [versions]}}.
CatalogWith(labels, regions, candidates) ==
    [l \in labels |->
        [r \in regions |->
            IF l = "OP 15" /\ r = "GLO" THEN candidates ELSE <<<<"B">>>>]]

Catalogs ==
    {CatalogWith(ls, rs, c) :
        ls \in {{}, {"OP 13"}, {"OP 13", "OP 15"}},
        rs \in {{"EU"}, {"EU", "GLO"}}, c \in CandidateLists}

LandingPages ==
    {[NoPage EXCEPT !.kind = k] : k \in {"no_attribute", "bad_json"}} \cup
    {[NoPage EXCEPT !.kind = "catalog", !.devices = d] : d \in Catalogs}

\* The page answering the form: it may lack the result box; when it has one
\* its data-url attribute is HTML-escaped, and is whatever the upstream put
\* there: an absolute URL or, for one, a path. The page may show a version
\* too.
ResultUrls ==
    {HttpScheme \o <<":", "r">>, HttpScheme \o <<":", "r", "?", "a", "&amp;", "b">>,
     <<"/", "r">>}

ResultPages ==
    {[NoPage EXCEPT !.kind = "no_result_box"]} \cup
    {[NoPage EXCEPT !.kind = "result", !.url_attr = u, !.version = v] :
        u \in ResultUrls, v \in {<<"A">>, <<"Z">>}}

PageReplies(pages) ==
    Failures \cup {[status |-> "ok", text |-> <<>>, page |-> pg] : pg \in pages}

\* 4.2 Catalog Extractor
extract_catalog(page) ==
    IF page.kind = "catalog" THEN page.devices ELSE <<>>

extract_result_url(page) ==
    IF page.kind = "result" THEN <<unescape(page.url_attr)>> ELSE None

\* 4.3 Firmware Locator
Targets == {None} \cup {<<v>> : v \in TargetVersions}

\* A network request as the strategies issue it.
Req(kind, device, region, version) ==
    [kind |-> kind, device |-> device, region |-> region, version |-> version]

\* A strategy invoked by the resolution, and what it returned.
Invoked(name) == [name |-> name, returned |-> FALSE, outcome |-> NOT_FOUND]

\* The exception handler of a strategy: the failure is logged and the
\* strategy returns NOT_FOUND.
Recover_reraise(reply) == [NOT_FOUND EXCEPT !.raised = TRUE]

Recover(reply) == NOT_FOUND

\* The strategy resolve starts with: the API cannot ask for a given version.
FirstStrategy_api(target) == "api"

FirstStrategy(target) == IF target = None THEN "api" ELSE "scrape"

\* Whether resolve goes on to the scrape strategy after the API strategy.
FallsBack_always(api_result) == TRUE

FallsBack(api_result) == ~api_result.found

\* Whether the scrape strategy has all it needs for the form.
Resolved_always(f) == TRUE

Resolved(f) == f.label # None /\ f.region # None /\ f.version # None

\* The value of an optional, the empty text when there is none.
Value(opt) == IF opt = None THEN <<>> ELSE opt[1]

\* The version of the descriptor the scrape strategy returns.
ScrapeVersion_from_page(f, page) == page.version

ScrapeVersion(f, page) == Value(f.version)

Returned(r) ==
    [strategies EXCEPT ![Len(strategies)] =
        [name |-> strategies[Len(strategies)].name, returned |-> TRUE,
         outcome |-> r]]

Issue(req, reply) ==
    /\ net' = Append(net, req)
    /\ replies' = Append(replies, reply)

\* resolve(device_id, region, target_version) is called.
Resolve ==
    \E target \in Targets :
        /\ pc \in {"idle", "done"}
        /\ request' = [device_id |-> "15", region |-> "GLO", target |-> target]
        /\ strategies' = <<Invoked(FirstStrategy(target))>>
        /\ pc' = IF FirstStrategy(target) = "api" THEN "api_url" ELSE "scrape_get"
        /\ net' = <<>>
        /\ replies' = <<>>
        /\ found' = NothingFound
        /\ result' = NOT_FOUND
        /\ UNCHANGED <<ledgerVars, driverVars, auxVars>>

\* resolve_via_api has returned r to resolve.
ApiReturns(r) ==
    /\ found' = NothingFound
    /\ IF ~r.raised /\ FallsBack(r)
       THEN /\ pc' = "scrape_get"
            /\ strategies' = Append(Returned(r), Invoked("scrape"))
            /\ result' = NOT_FOUND
       ELSE /\ pc' = "done"
            /\ strategies' = Returned(r)
            /\ result' = r

\* resolve_via_api, steps 1-2: the request for the signed URL.
ApiUrl ==
    /\ pc = "api_url"
    /\ \E reply \in TextReplies(UrlTexts) :
          LET url == strip(reply.text) IN
          /\ Issue(Req("api_url", OosId(request.device_id), request.region, None),
                   reply)
          /\ IF reply.status # "ok" THEN ApiReturns(Recover(reply))
             ELSE IF ~startswith(url, HttpScheme) THEN ApiReturns(NOT_FOUND)
             ELSE /\ pc' = "api_version"
                  /\ found' = [found EXCEPT !.url = url]
                  /\ UNCHANGED <<strategies, result>>
    /\ UNCHANGED <<request, ledgerVars, driverVars, auxVars>>

\* resolve_via_api, steps 3-5: the request for the version string.
ApiVersion ==
    /\ pc = "api_version"
    /\ \E reply \in TextReplies(VersionTexts) :
          LET version == strip(reply.text) IN
          /\ Issue(Req("api_version", OosId(request.device_id), request.region,
                       None), reply)
          /\ IF reply.status # "ok" THEN ApiReturns(Recover(reply))
             ELSE IF version = <<>> THEN ApiReturns(NOT_FOUND)
             ELSE ApiReturns(Descriptor(found.url, version))
    /\ UNCHANGED <<request, ledgerVars, driverVars, auxVars>>

\* resolve_via_scrape has returned r to resolve.
ScrapeReturns(r) ==
    /\ pc' = "done"
    /\ strategies' = Returned(r)
    /\ result' = r

\* resolve_via_scrape, steps 1-3: the landing page, the catalog lookups and
\* the Version Matcher.
ScrapeGet ==
    /\ pc = "scrape_get"
    /\ \E reply \in PageReplies(LandingPages) :
          /\ Issue(Req("GET", "", "", None), reply)
          /\ IF reply.status # "ok"
             THEN /\ ScrapeReturns(Recover(reply))
                  /\ UNCHANGED found
             ELSE LET catalog == extract_catalog(reply.page)
                      label == SpringLabel(request.device_id)
                      has_label == label # None /\ Value(label) \in DOMAIN catalog
                      has_region == /\ has_label
                                    /\ request.region \in DOMAIN catalog[label[1]]
                      candidates == IF has_region
                                    THEN catalog[label[1]][request.region]
                                    ELSE <<>>
                      f == [url |-> <<>>,
                            label |-> IF has_label THEN label ELSE None,
                            region |-> IF has_region THEN <<request.region>>
                                       ELSE None,
                            matched |-> has_region,
                            candidates |-> candidates,
                            version |-> IF has_region
                                        THEN select(candidates, request.target)
                                        ELSE None]
                  IN  /\ found' = f
                      /\ IF Resolved(f)
                         THEN /\ pc' = "scrape_post"
                              /\ UNCHANGED <<strategies, result>>
                         ELSE ScrapeReturns(NOT_FOUND)
    /\ UNCHANGED <<request, ledgerVars, driverVars, auxVars>>

\* resolve_via_scrape, steps 4-7: the form and the result page.
ScrapePost ==
    /\ pc = "scrape_post"
    /\ \E reply \in PageReplies(ResultPages) :
          LET url == extract_result_url(reply.page) IN
          /\ Issue(Req("POST", Value(found.label), Value(found.region),
                       found.version), reply)
          /\ IF reply.status # "ok" THEN ScrapeReturns(Recover(reply))
             ELSE IF url = None THEN ScrapeReturns(NOT_FOUND)
             ELSE ScrapeReturns(Descriptor(url[1],
                                           ScrapeVersion(found, reply.page)))
    /\ UNCHANGED <<request, found, ledgerVars, driverVars, auxVars>>

InitLocator ==
    /\ history = load_history_missing
    /\ NoCall

NextLocator == Resolve \/ ApiUrl \/ ApiVersion \/ ScrapeGet \/ ScrapePost

SpecLocator == InitLocator /\ [][NextLocator]_vars

LocatorTypeOK ==
    /\ pc \in {"idle", "api_url", "api_version", "scrape_get", "scrape_post", "done"}
    /\ result.found \in BOOLEAN
    /\ Len(net) = Len(replies)
    /\ Len(strategies) <= 2

\* ------------------------------------------------------------ verify_all
\* DEVICE_METADATA.items() as a sequence of devices, each with the regions
\* of its models in order; a device may have no models.
DeviceIds == <<"15", "13", "12">>

RegionLists == {<<>>, <<"GLO">>, <<"GLO", "EU">>}

Metadatas ==
    UNION {{[i \in 1..n |->
                [device_id |-> DeviceIds[i],
                 name |-> get_display_name(DeviceIds[i]),
                 models |-> regions[i]]] :
            regions \in [1..n -> RegionLists]} : n \in 0..MaxDevices}

\* The (device, region) pairs in the order of the two nested for loops.
RECURSIVE PairsOf(_)
PairsOf(m) ==
    IF m = <<>> THEN <<>>
    ELSE [j \in 1..Len(m[1].models) |->
             [device_id |-> m[1].device_id, name |-> m[1].name,
              region |-> m[1].models[j]]]
         \o PairsOf(Tail(m))

\* What subprocess.run does with a fetch: it returns with an exit code and
\* the captured output, or raises TimeoutExpired, or raises something else.
Exited(returncode, stdout) ==
    [kind |-> "exit", returncode |-> returncode, stdout |-> stdout]

Raised(kind) == [kind |-> kind, returncode |-> 1, stdout |-> <<>>]

FetchOutcomes ==
    {Exited(0, HttpScheme \o <<":", "u">>),
     Exited(0, <<" ">> \o HttpScheme \o <<":", "u", "\n">>),
     Exited(0, <<"n", "o", "t">>),
     Exited(1, HttpScheme \o <<":", "u">>),
     Raised("timeout"), Raised("exception")}

\* The try block with its two handlers: status and message of one pair.
Judge_any_output(o) ==
    IF o.kind = "timeout" THEN [status |-> "FAIL", msg |-> "Timeout"]
    ELSE IF o.kind = "exception" THEN [status |-> "FAIL", msg |-> "str(e)"]
    ELSE IF o.returncode = 0
         THEN [status |-> "OK", msg |-> "URL Found"]
         ELSE [status |-> "FAIL", msg |-> "Command Failed"]

Judge(o) ==
    IF o.kind = "timeout" THEN [status |-> "FAIL", msg |-> "Timeout"]
    ELSE IF o.kind = "exception" THEN [status |-> "FAIL", msg |-> "str(e)"]
    ELSE IF o.returncode = 0
         THEN IF startswith(strip(o.stdout), HttpScheme)
              THEN [status |-> "OK", msg |-> "URL Found"]
              ELSE [status |-> "FAIL", msg |-> "Invalid Output"]
         ELSE [status |-> "FAIL", msg |-> "Command Failed"]

\* What the handlers of the try block catch.
Handled_timeout_only(o) == o.kind # "exception"

Handled(o) == TRUE

\* failures = [r for r in results if r[2] != "OK"]
Failures_of(rs) == {i \in 1..Len(rs) : rs[i].status # "OK"}

InitVerify ==
    /\ history = load_history_missing
    /\ DriverIdle
    /\ LedgerIdle
    /\ LocatorIdle
    /\ OverlapIdle
    /\ ParseIdle
    /\ meta \in Metadatas
    /\ launched = <<>>
    /\ results = <<>>
    /\ report = "running"

\* One turn of the inner loop: the fetch for the next pair and its result.
Fetch ==
    /\ report = "running"
    /\ Len(launched) < Len(PairsOf(meta))
    /\ \E o \in FetchOutcomes :
          LET pair == PairsOf(meta)[Len(launched) + 1]
              j == Judge(o)
          IN  /\ launched' = Append(launched,
                                    [device_id |-> pair.device_id,
                                     region |-> pair.region, outcome |-> o])
              /\ IF Handled(o)
                 THEN /\ results' = Append(results,
                                           [name |-> pair.name,
                                            region |-> pair.region,
                                            status |-> j.status, msg |-> j.msg])
                      /\ UNCHANGED report
                 ELSE /\ report' = "crashed"
                      /\ UNCHANGED results
    /\ UNCHANGED <<meta, ledgerVars, driverVars, locatorVars, overlapVars, parseVars>>

\* After the loops: the list of failures, or the word that all passed.
Summarise ==
    /\ report = "running"
    /\ Len(launched) = Len(PairsOf(meta))
    /\ report' = IF Failures_of(results) # {} THEN "failures" ELSE "passed"
    /\ UNCHANGED <<meta, launched, results>>
    /\ UNCHANGED <<ledgerVars, driverVars, locatorVars, overlapVars, parseVars>>

NextVerify == Fetch \/ Summarise

SpecVerify == InitVerify /\ [][NextVerify]_vars

\* verify_all is a sequential loop and every fetch ends, by itself or by the
\* timeout of subprocess.run: a step that can be taken is taken.
SpecVerifyFair == SpecVerify /\ WF_vars(NextVerify)

\* ------------------------------------------------- the report generators
\* generate_readme.generate_device_section: the record shown for a ledger,
\* as its position in history, 0 when the ledger is shown as waiting.
current_entry_last(h) ==
    IF CurrentIndices(h) # {}
    THEN CHOOSE i \in CurrentIndices(h) : \A j \in CurrentIndices(h) : i <= j
    ELSE Len(h)

current_entry(h) ==
    IF CurrentIndices(h) # {}
    THEN CHOOSE i \in CurrentIndices(h) : \A j \in CurrentIndices(h) : i <= j
    ELSE IF h # <<>> THEN 1 ELSE 0

\* generate_site.process_data: the same search and fallback, 0 when the
\* ledger is skipped.
site_current_entry(h) ==
    IF \E i \in Indices(h) : h[i].status = "current"
    THEN CHOOSE i \in Indices(h) :
            /\ h[i].status = "current"
            /\ \A j \in 1..(i - 1) : h[j].status # "current"
    ELSE IF Len(h) > 0 THEN 1 ELSE 0

\* ------------------------------------- invocations on one ledger file
\* Two processes running update_history.py for the same device and region
\* with complete command lines. An invocation loads the file (line 122),
\* then works on its copy and saves it (lines 124-131).
Writers == {"w1", "w2"}

NotRunning == [pc |-> "idle", version |-> None, historical |-> FALSE, data |-> NoFile]

\* Whether w may begin: the invocations on a file are run one after the
\* other, none begins while another is between its load and its save.
MayBegin_anytime(w) == TRUE

MayBegin(w) == \A v \in Writers : v # w => writers.inv[v].pc = "idle"

InitWriters ==
    /\ history = load_history_missing
    /\ DriverIdle
    /\ LedgerIdle
    /\ LocatorIdle
    /\ VerifyIdle
    /\ ParseIdle
    /\ writers = [inv |-> [w \in Writers |-> NotRunning], passed |-> {}]

\* history = load_history(history_file)
Load ==
    \E w \in Writers, version \in DriverVersions, is_historical \in BOOLEAN :
        /\ writers.inv[w].pc = "idle"
        /\ MayBegin(w)
        /\ writers' = [writers EXCEPT
                         !.inv[w] = [pc |-> "loaded", version |-> <<version>>,
                                     historical |-> is_historical,
                                     data |-> load_history(ledger_file).data],
                         !.passed = @ \cup {version}]
        /\ UNCHANGED <<ledgerVars, driverVars, locatorVars, verifyVars, parseVars>>

\* The identity fields, update_history_entry and save_history.
Save ==
    \E w \in Writers :
        LET me == writers.inv[w]
            a == AnalysisOf(me.version[1])
            data == IF LacksDevice(me.data)
                    THEN WriteIdentity(me.data, "15", "GLO")
                    ELSE me.data
            r == update_history_entry(data.history, me.version[1], a.arb,
                                      a.major, a.minor, me.historical, today)
        IN  /\ me.pc = "loaded"
            /\ ledger_file' = save_history([data EXCEPT !.history = r.history])
            /\ writers' = [writers EXCEPT !.inv[w].pc = "idle",
                                          !.inv[w].data = NoFile]
            /\ UNCHANGED run
            /\ UNCHANGED <<ledgerVars, locatorVars, verifyVars, parseVars>>

NextWriters == Load \/ Save

SpecWriters == InitWriters /\ [][NextWriters]_vars

\* ------------------------------------------------ parse_ini_section
\* parse_firmware_history.py. The file is its sequence of lines: a section
\* header "[name]" or a "key=value" line, the value a text.
MaxLines == 5
MaxPairs == 2

Header(name) == [kind |-> "section", name |-> name, key |-> "", value |-> <<>>]

KeyValue(key, value) == [kind |-> "kv", name |-> "", key |-> key, value |-> value]

Lines ==
    {Header("S"), Header("t"),
     KeyValue("URL", <<"a", " ">>), KeyValue("url", <<>>),
     KeyValue("version", <<"1">>), KeyValue("Version", <<" ", "2">>),
     KeyValue("version", <<" ">>)}

IniFiles == UNION {[1..n -> Lines] : n \in 0..MaxLines}

section_name == "s"

\* str.lower(), and the case folding of re.IGNORECASE
lower(s) ==
    CASE s = "URL" -> "url"
      [] s = "Version" -> "version"
      [] s = "S" -> "s"
      [] OTHER -> s

\* section_regex.search(ini_content): the first header of that name
SectionStart(content, name) ==
    LET hits == {i \in 1..Len(content) :
                    /\ content[i].kind = "section"
                    /\ lower(content[i].name) = lower(name)}
    IN  IF hits = {} THEN None
        ELSE <<CHOOSE i \in hits : \A j \in hits : i <= j>>

\* The block runs to the next line opening with "[", or to the end.
SectionEnd_eof(content, start) == Len(content)

SectionEnd(content, start) ==
    LET heads == {i \in (start + 1)..Len(content) : content[i].kind = "section"}
    IN  IF heads = {} THEN Len(content)
        ELSE (CHOOSE i \in heads : \A j \in heads : i <= j) - 1

\* not any(r['version'] == version for r in results)
Unseen(out, version) == \A k \in 1..Len(out) : out[k].version # version

\* The loop over kv_pairs, from line k to line last. A pair remembers the
\* lines it was read from (url_line, version_line).
RECURSIVE Scan(_, _, _, _, _, _)
Scan(content, k, last, current_url, out, max_versions) ==
    IF k > last THEN out
    ELSE
      LET key == lower(content[k].key)
          value == strip(content[k].value)
      IN  IF key = "url"
          THEN Scan(content, k + 1, last, <<[url |-> value, line |-> k]>>,
                    out, max_versions)
          ELSE IF key = "version"
          THEN IF value # <<>> /\ current_url # None /\ current_url[1].url # <<>>
               THEN LET added == IF Unseen(out, value)
                                 THEN Append(out,
                                             [version |-> value,
                                              url |-> current_url[1].url,
                                              url_line |-> current_url[1].line,
                                              version_line |-> k])
                                 ELSE out
                    IN  IF Len(added) >= max_versions
                        THEN added
                        ELSE Scan(content, k + 1, last, None, added, max_versions)
               ELSE Scan(content, k + 1, last, current_url, out, max_versions)
          ELSE Scan(content, k + 1, last, current_url, out, max_versions)

parse_ini_section(ini_content, name, max_versions) ==
    LET start == SectionStart(ini_content, name)
    IN  IF start = None THEN <<>>
        ELSE Scan(ini_content, start[1] + 1, SectionEnd(ini_content, start[1]),
                  None, <<>>, max_versions)

InitParse ==
    /\ history = load_history_missing
    /\ DriverIdle
    /\ LedgerIdle
    /\ LocatorIdle
    /\ VerifyIdle
    /\ OverlapIdle
    /\ ini \in IniFiles
    /\ pairs = <<>>

Parse ==
    \E max_versions \in 1..MaxPairs :
        /\ pairs = <<>>
        /\ pairs' = <<[max_versions |-> max_versions,
                       results |-> parse_ini_section(ini, section_name, max_versions)]>>
        /\ UNCHANGED ini
        /\ UNCHANGED <<ledgerVars, driverVars, locatorVars, verifyVars, overlapVars>>

NextParse == Parse

SpecParse == InitParse /\ [][NextParse]_vars

\* ---------------------------------------------------------------- claims
\* What the last step was, read from the two states of a step: the call's
\* arguments are args', the ledger it was applied to is history.
LiveStep == ~args'.is_historical
HistoricalStep == args'.is_historical
PresentBefore == args'.version \in VersionsOf(history)

\* C1: from the empty ledger, after any sequence of update calls the history
\* holds at most one record whose status is current.
C1_AtMostOneCurrent == Cardinality(CurrentIndices(history)) <= 1

\* C1 witness: a ledger of three records, built by live and historical calls,
\* one of them current.
C1_Witness ==
    /\ Len(history) = 3
    /\ live_seen
    /\ args.is_historical
    /\ Cardinality(CurrentIndices(history)) = 1

C2_Step ==
    (LiveStep /\ ~PresentBefore) =>
        /\ CurrentIndices(history') = {1}
        /\ history'[1].version = args'.version
        /\ Len(history') = Len(history) + 1
        /\ \A i \in Indices(history) :
                /\ history'[i + 1].version = history[i].version
                /\ history'[i + 1].status = "archived"

\* C2: a non-historical call with a version not yet in history leaves exactly
\* one current record, the newly added version, at the front of history, and
\* every record that existed before the call archived.
C2_LiveInsert == [][C2_Step]_vars

\* C2 witness: a live call has just inserted a new version in front of the
\* two records that were there, both archived now.
C2_Witness ==
    /\ branch = "insert"
    /\ ~args.is_historical
    /\ Len(history) = 3
    /\ history[1].version = args.version
    /\ history[1].status = "current"
    /\ history[2].status = "archived"
    /\ history[3].status = "archived"

C3_Step ==
    (/\ LiveStep
     /\ \E i \in Indices(history) :
            history[i].version = args'.version /\ history[i].status = "archived") =>
        LET i == CHOOSE k \in Indices(history) : history[k].version = args'.version
        IN  /\ ret' = TRUE
            /\ Len(history') = Len(history)
            /\ history'[1].version = args'.version
            /\ history'[1].status = "current"
            /\ \A j \in 2..Len(history') : history'[j].status = "archived"
            /\ VersionSeq(history') = <<args'.version>> \o VersionSeq(RemoveAt(history, i))

\* C3: promotion. A non-historical call for a version whose record is archived
\* makes that record current and every other record archived, moves it to the
\* front, keeps the order of the other records and the length, returns true.
C3_Promotion == [][C3_Step]_vars

\* C3 witness: a promotion in a ledger of three records, so that two other
\* records keep their order behind the promoted one.
C3_Witness ==
    /\ branch = "promote"
    /\ ret = TRUE
    /\ Len(history) = 3
    /\ history[1].version = args.version
    /\ history[1].status = "current"

\* All fields of the two records agree, last_checked apart.
SameButLastChecked(a, b) == a = [b EXCEPT !.last_checked = a.last_checked]

C4_Step ==
    (/\ branch # "none"
     /\ ~args.is_historical
     /\ args' = args) =>
        /\ ret' = FALSE
        /\ Len(history') = Len(history)
        /\ \A i \in Indices(history) : SameButLastChecked(history'[i], history[i])

\* C4: when a non-historical call is made twice in a row with identical
\* version, arb, major and minor, the second call returns false and leaves
\* the length, the order and every record's status as the first call left
\* them; only last_checked may differ.
C4_LiveIdempotent == [][C4_Step]_vars

\* C4 witness: a live call named the version that a live call had made
\* current, on a later day than the record was first seen, so that the
\* record's last_checked did change while nothing else did.
C4_Witness ==
    /\ branch = "refresh"
    /\ ~args.is_historical
    /\ ret = FALSE
    /\ Len(history) = 3
    /\ history[1].version = args.version
    /\ history[1].status = "current"
    /\ history[1].last_checked = today
    /\ history[1].first_seen < today

C5_Step == HistoricalStep => CurrentVersions(history') = CurrentVersions(history)

\* C5: a call with is_historical = true, whatever its version, leaves the
\* identity of the current record unchanged: the version current after the
\* call is the version current before it, and none if there was none.
C5_HistoricalKeepsCurrent == [][C5_Step]_vars

\* C5 witness: a historical call has added a record to a ledger that has a
\* current record of another version.
C5_Witness ==
    /\ args.is_historical
    /\ branch = "append"
    /\ CurrentIndices(history) = {1}
    /\ history[1].version # args.version

C6_Step ==
    (HistoricalStep /\ ~PresentBefore) =>
        /\ ret' = FALSE
        /\ Len(history') = Len(history) + 1
        /\ SubSeq(history', 1, Len(history)) = history
        /\ history'[Len(history')].version = args'.version
        /\ history'[Len(history')].status = "archived"

\* C6: a historical call for a version absent from history appends exactly
\* one archived record at the end, leaves the order and status of the records
\* that were there unchanged, and returns false; consecutive backfills are
\* therefore at the tail in call order.
C6_HistoricalAppend == [][C6_Step]_vars

\* C6 witness: two backfills behind a record inserted by a live call, the
\* later backfill last.
C6_Witness ==
    /\ branch = "append"
    /\ ret = FALSE
    /\ live_seen
    /\ Len(history) = 3
    /\ history[3].version = args.version
    /\ history[2].status = "archived"
    /\ history[1].status = "current"

\* C7 as stated: once any update call, live or historical, has been applied
\* to the ledger, the ledger has exactly one current record.
C7_AnyCallMakesCurrent ==
    branch # "none" => Cardinality(CurrentIndices(history)) = 1

\* C7: a ledger has no current record exactly as long as no non-historical
\* call has been applied to it; once a live call has been applied it has
\* exactly one, and historical calls alone never give it one.
C7_LiveCallMakesCurrent ==
    /\ live_seen => Cardinality(CurrentIndices(history)) = 1
    /\ ~live_seen => CurrentIndices(history) = {}

\* C7 witness: a ledger that two historical calls have filled and no live
\* call has touched: two records, none of them current.
C7_Witness ==
    /\ branch = "append"
    /\ ~live_seen
    /\ Len(history) = 2
    /\ CurrentIndices(history) = {}

\* C8: after a non-historical call returns, the ledger has exactly one
\* current record, whatever history the ledger file held before the call.
C8_LiveCallOneCurrent ==
    (branch # "none" /\ ~args.is_historical) =>
        Cardinality(CurrentIndices(history)) = 1

\* C9: from the empty ledger, no two records of history have the same version.
C9_VersionsUnique ==
    \A i, j \in Indices(history) :
        history[i].version = history[j].version => i = j

\* C9 witness: a version made current by a live call has then been named by
\* a historical call, and the ledger of three records still holds it once.
C9_Witness ==
    /\ branch = "refresh"
    /\ args.is_historical
    /\ Len(history) = 3
    /\ history[1].version = args.version
    /\ history[1].status = "current"
    /\ Cardinality(VersionsOf(history)) = 3

\* C10 as stated: a historical call creates no current record and leaves
\* every field of the current record, last_checked included, and its
\* position as they were.
C10_Step_AllFields ==
    HistoricalStep =>
        /\ CurrentIndices(history') = CurrentIndices(history)
        /\ \A i \in CurrentIndices(history) : history'[i] = history[i]

C10_HistoricalKeepsAllFields == [][C10_Step_AllFields]_vars

C10_Step ==
    HistoricalStep =>
        /\ CurrentIndices(history') = CurrentIndices(history)
        /\ \A i \in CurrentIndices(history) :
                history'[i] =
                    [history[i] EXCEPT !.last_checked =
                        IF history[i].version = args'.version THEN today' ELSE @]

\* C10: a historical call creates no current record and leaves the current
\* record's position, version, arb, major, minor, first_seen and status as
\* they were; its last_checked is kept too unless the call names the current
\* version, and is then set to the day of the call.
C10_HistoricalKeepsCurrentRecord == [][C10_Step]_vars

\* C10 witness: a historical call named the current version on a later day
\* than the record was first seen and refreshed its last_checked.
C10_Witness ==
    /\ branch = "refresh"
    /\ args.is_historical
    /\ CurrentIndices(history) = {1}
    /\ history[1].version = args.version
    /\ history[1].first_seen < today
    /\ history[1].last_checked = today

\* The four identifying fields of a ledger file.
IdentityOf(file) ==
    [device |-> file.device, device_id |-> file.device_id,
     region |-> file.region, model |-> file.model]

\* C11: the driver writes device, device_id, region and model only when the
\* ledger it loaded has no device value (then they come from the static
\* metadata), and a ledger that has a device value keeps its four fields
\* through every later invocation; the rest of an invocation, the update of
\* the history list included, leaves them alone.
C11_Step ==
    /\ Truthy(ledger_file.device) => IdentityOf(ledger_file') = IdentityOf(ledger_file)
    /\ IdentityOf(ledger_file') # IdentityOf(ledger_file) =>
          /\ ~Truthy(ledger_file.device)
          /\ run'.wrote_ids /\ run'.saved
          /\ IdentityOf(ledger_file') =
                [device |-> <<get_display_name(run'.device_short[1])>>,
                 device_id |-> run'.device_short,
                 region |-> <<"GLO">>,
                 model |-> <<get_model_number(run'.device_short[1], "GLO")>>]

C11_IdentityWrittenOnce == [][C11_Step]_vars

\* A later invocation has saved a ledger whose identity the driver wrote
\* earlier, and did not write the fields again.
C11_Witness ==
    /\ ledger_file.device = <<"OnePlus 15">>
    /\ run.saved /\ ~run.wrote_ids

\* C12: when the ledger file does not hold valid JSON the invocation fails
\* (the load raises, unless the command line was refused before), no update
\* is applied and the file keeps its content.
C12_Step ==
    ledger_file.kind = "malformed" =>
        /\ ledger_file' = ledger_file
        /\ run'.exit \in {"load_error", "usage", "json_error", "json_missing"}
        /\ ~run'.loaded /\ ~run'.saved
        /\ RequiredPresent(run'.device_short, <<"GLO">>, run'.version, run'.arb)
              => run'.exit = "load_error"

C12_MalformedLedgerIsFatal == [][C12_Step]_vars

\* A complete command line met a malformed ledger file.
C12_Witness ==
    /\ ledger_file.kind = "malformed"
    /\ run.exit = "load_error"
    /\ Truthy(run.version) /\ run.arb # None

\* C13: a command line without a version or without an arb value, positional
\* or through --json-file, ends in failure before the ledger is loaded or
\* saved and leaves the file as it was; an arb value of 0 is a value, and the
\* record of the version carries it.
C13_Step ==
    /\ (~Truthy(run'.version) \/ run'.arb = None) =>
          /\ run'.exit \in {"usage", "json_error", "json_missing"}
          /\ ~run'.loaded /\ ~run'.saved
          /\ ledger_file' = ledger_file
    /\ (/\ run'.arb = <<0>>
        /\ Truthy(run'.version) /\ Truthy(run'.device_short)
        /\ ledger_file.kind # "malformed"
        /\ run'.exit # "type_error") =>
          /\ run'.exit = "ok" /\ run'.saved
          /\ \E i \in 1..Len(ledger_file'.history) :
                /\ ledger_file'.history[i].version = run'.version[1]
                /\ ledger_file'.history[i].arb = 0

ApiKinds == {"api_url", "api_version"}

ScrapeKinds == {"GET", "POST"}

Issued(kinds) == {i \in 1..Len(net) : net[i].kind \in kinds}

\* The text is an http URL once the blanks around it are dropped.
BeginsHttpAfterBlanks(text) ==
    \E i \in 0..Len(text) :
        /\ \A j \in 1..i : text[j] \in Whitespace
        /\ i + Len(HttpScheme) <= Len(text)
        /\ SubSeq(text, i + 1, i + Len(HttpScheme)) = HttpScheme

AllBlank(text) == \A j \in 1..Len(text) : text[j] \in Whitespace

\* t is raw without the blanks at its two ends.
IsTrimOf(t, raw) ==
    /\ t # <<>> => (t[1] \notin Whitespace /\ t[Len(t)] \notin Whitespace)
    /\ \E i \in 0..(Len(raw) - Len(t)) :
          /\ SubSeq(raw, i + 1, i + Len(t)) = t
          /\ \A j \in 1..i : raw[j] \in Whitespace
          /\ \A j \in (i + Len(t) + 1)..Len(raw) : raw[j] \in Whitespace

\* The candidate list the landing page gives for the requested device and
\* region, empty when it gives none.
ListedOn(page) ==
    IF /\ page.kind = "catalog"
       /\ "OP 15" \in DOMAIN page.devices
       /\ "GLO" \in DOMAIN page.devices["OP 15"]
    THEN page.devices["OP 15"]["GLO"]
    ELSE <<>>

\* C14: without a target version the API strategy is invoked first, and the
\* scrape strategy is invoked if and only if the API strategy returned
\* NOT_FOUND; when the API strategy returns a descriptor, that descriptor is
\* the result and no scrape request is ever issued.
C14_ApiFirstThenFallback ==
    (pc # "idle" /\ request.target = None) =>
        /\ strategies[1].name = "api"
        /\ Len(strategies) = 2 <=>
              (strategies[1].returned /\ ~strategies[1].outcome.found)
        /\ Len(strategies) = 2 => strategies[2].name = "scrape"
        /\ \A i \in Issued(ScrapeKinds) :
              /\ Len(strategies) = 2
              /\ \A j \in Issued(ApiKinds) : j < i
        /\ (strategies[1].returned /\ strategies[1].outcome.found) =>
              /\ pc = "done"
              /\ result = strategies[1].outcome
              /\ Issued(ScrapeKinds) = {}

\* The API strategy failed on its second request and the scrape strategy
\* then found the firmware.
C14_Witness ==
    /\ pc = "done" /\ request.target = None
    /\ Len(strategies) = 2 /\ result.found
    /\ Len(net) = 4

\* C15: with a target version no API request is issued at any point of the
\* resolution, and the scrape strategy is the only one invoked, once.
C15_TargetSkipsApi ==
    (pc # "idle" /\ request.target # None) =>
        /\ Issued(ApiKinds) = {}
        /\ Len(strategies) = 1
        /\ strategies[1].name = "scrape"
        /\ Cardinality({i \in 1..Len(net) : net[i].kind = "GET"}) <= 1
        /\ Cardinality({i \in 1..Len(net) : net[i].kind = "POST"}) <= 1
        /\ pc = "done" => strategies[1].returned /\ result = strategies[1].outcome

\* A resolution of a given version went through the landing page and the
\* form and found the firmware.
C15_Witness ==
    /\ pc = "done" /\ request.target # None
    /\ result.found
    /\ Len(net) = 2

\* A request of the strategy failed, or what it received did not pass: an
\* exception, a timeout, an error status, a text that is not a URL or is
\* blank, a page without catalog or with one that is not JSON or that lacks
\* the device, the region or the version, a page without result box.
Missed(i) ==
    \/ replies[i].status # "ok"
    \/ net[i].kind = "api_url" /\ ~BeginsHttpAfterBlanks(replies[i].text)
    \/ net[i].kind = "api_version" /\ AllBlank(replies[i].text)
    \/ net[i].kind = "GET" /\ ListedOn(replies[i].page) = <<>>
    \/ /\ net[i].kind = "GET" /\ request.target # None
       /\ \A n \in 1..Len(ListedOn(replies[i].page)) :
             ListedOn(replies[i].page)[n] # request.target[1]
    \/ net[i].kind = "POST" /\ replies[i].page.kind # "result"

KindsOf(name) == IF name = "api" THEN ApiKinds ELSE ScrapeKinds

C17_PostOnlyAfterLocalMatch ==
    /\ \A i \in Issued({"POST"}) :
          /\ i > 1
          /\ net[i - 1].kind = "GET"
          /\ replies[i - 1].status = "ok"
          /\ net[i].device = "OP 15" /\ net[i].region = "GLO"
          /\ net[i].version # None
          /\ \E n \in 1..Len(ListedOn(replies[i - 1].page)) :
                ListedOn(replies[i - 1].page)[n] = net[i].version[1]
    /\ \A i \in Issued({"GET"}) :
          (/\ replies[i].status = "ok"
           /\ "OP 15" \notin DOMAIN extract_catalog(replies[i].page)) =>
              /\ pc = "done"
              /\ result = NOT_FOUND
              /\ Issued({"POST"}) = {}

\* The landing page gave a catalog of other devices only.
C17_Witness ==
    /\ pc = "done"
    /\ net[Len(net)].kind = "GET"
    /\ replies[Len(net)].page.kind = "catalog"
    /\ DOMAIN replies[Len(net)].page.devices = {"OP 13"}
    /\ result = NOT_FOUND

\* C18: the API strategy returns a descriptor exactly when the URL reply,
\* blanks around it dropped, begins with http and the version reply, blanks
\* dropped, is not empty; the descriptor then carries the two trimmed
\* texts; otherwise the strategy returns NOT_FOUND.
C18_ApiValidation ==
    (strategies # <<>> /\ strategies[1].name = "api" /\ strategies[1].returned) =>
        LET api == strategies[1].outcome
            valid == /\ Len(replies) >= 2
                     /\ replies[1].status = "ok" /\ replies[2].status = "ok"
                     /\ BeginsHttpAfterBlanks(replies[1].text)
                     /\ ~AllBlank(replies[2].text)
        IN  /\ api.found <=> valid
            /\ api.found =>
                  /\ IsTrimOf(api.url, replies[1].text)
                  /\ IsTrimOf(api.version, replies[2].text)
            /\ ~api.found => api = NOT_FOUND

\* The API answered both requests with blanks around the texts, and the
\* descriptor carries the texts without them.
C18_Witness ==
    /\ pc = "done" /\ Len(strategies) = 1 /\ strategies[1].name = "api"
    /\ result.found
    /\ result.url # replies[1].text
    /\ result.version # replies[2].text

\* C19: the version of a descriptor returned by the scrape strategy is the
\* one the Version Matcher chose and the POST carried (the target when there
\* is one, else the first catalog entry for the label and region), whatever
\* the result page shows; the page gives the url.
C19_ScrapeVersionIsRequestValue ==
    (/\ pc = "done" /\ result.found
     /\ strategies[Len(strategies)].name = "scrape") =>
        LET n == Len(net) IN
        /\ net[n].kind = "POST" /\ net[n - 1].kind = "GET"
        /\ net[n].version = <<result.version>>
        /\ request.target # None => result.version = request.target[1]
        /\ request.target = None =>
              result.version = ListedOn(replies[n - 1].page)[1]
        /\ result.url = unescape(replies[n].page.url_attr)

\* The result page showed a version other than the one asked for.
C19_Witness ==
    /\ pc = "done" /\ result.found
    /\ strategies[Len(strategies)].name = "scrape"
    /\ replies[Len(net)].page.version # result.version
    /\ request.target = None

ResultFrom(name) ==
    /\ pc = "done" /\ result.found
    /\ strategies[Len(strategies)].name = name

Summarised == report \in {"passed", "failures"}

\* The (device, region) pairs of the metadata.
MetaPairs ==
    UNION {{<<meta[d].device_id, meta[d].models[j]>> :
                j \in 1..Len(meta[d].models)} : d \in 1..Len(meta)}

LaunchesOf(p) ==
    {i \in 1..Len(launched) :
        launched[i].device_id = p[1] /\ launched[i].region = p[2]}

C22_Safe ==
    /\ report # "crashed"
    /\ \A i \in 1..Len(launched) :
          <<launched[i].device_id, launched[i].region>> \in MetaPairs
    /\ \A p \in MetaPairs : Cardinality(LaunchesOf(p)) <= 1
    /\ Len(results) = Len(launched)
    /\ Summarised =>
          /\ \A p \in MetaPairs : Cardinality(LaunchesOf(p)) = 1
          /\ Len(results) = Cardinality(MetaPairs)

\* C22: verify_all runs one fetch for each (device, region) pair of the
\* metadata and none for a device without models; a failed exit code, a
\* timeout or an exception of one fetch does not stop the loop, and the run
\* reaches the summary with one result per pair.
C22_OneFetchPerPair == [](C22_Safe) /\ <>(Summarised)

\* The first fetch timed out, the second raised, and the run went on to a
\* third pair and to the summary.
C22_Witness ==
    /\ Summarised
    /\ Len(results) = 3
    /\ launched[1].outcome.kind = "timeout"
    /\ launched[2].outcome.kind = "exception"
    /\ launched[3].outcome.kind = "exit"

\* C23: a pair is OK exactly when its fetch exited with code 0 and printed,
\* blanks aside, something that begins with http; every other outcome is
\* FAIL; "All devices passed" is printed exactly when no pair is FAIL.
C23_StatusAndVerdict ==
    /\ \A i \in 1..Len(results) :
          LET o == launched[i].outcome IN
          /\ results[i].status \in {"OK", "FAIL"}
          /\ results[i].status = "OK" <=>
                /\ o.kind = "exit"
                /\ o.returncode = 0
                /\ BeginsHttpAfterBlanks(o.stdout)
    /\ Summarised =>
          (report = "passed" <=>
              \A i \in 1..Len(results) : results[i].status # "FAIL")

\* A fetch that exited with code 0 and printed no URL was recorded as
\* FAIL next to one whose URL had blanks around it, recorded as OK.
C23_Witness ==
    /\ report = "failures"
    /\ Len(results) = 2
    /\ launched[1].outcome = Exited(0, <<"n", "o", "t">>)
    /\ results[1].status = "FAIL"
    /\ launched[2].outcome.stdout[1] = " "
    /\ results[2].status = "OK"

\* C24: the generators show the first record whose status is current and,
\* when there is none, the first record; for a non-empty ledger built by
\* update calls that is the record at the head of history, also when every
\* call was historical.
C24_ShownIsHead ==
    LET k == current_entry(history) IN
    /\ k = site_current_entry(history)
    /\ CurrentIndices(history) # {} =>
          /\ k \in CurrentIndices(history)
          /\ \A j \in 1..(k - 1) : history[j].status # "current"
    /\ (CurrentIndices(history) = {} /\ history # <<>>) => k = 1
    /\ history # <<>> => k = 1

\* A ledger of two backfilled records, none of them current.
C24_Witness ==
    /\ ~live_seen
    /\ Len(history) >= 2
    /\ current_entry(history) = 1

\* C25: in every ledger reachable from the empty one, a record whose status
\* is current is at the head of history; appends and refreshes that follow
\* leave it there.
C25_CurrentAtHead == \A i \in CurrentIndices(history) : i = 1

\* A historical append was the last call, on a ledger of at least two
\* records, and the current record, checked again since it was first seen,
\* is still the head.
C25_Witness ==
    /\ branch = "append"
    /\ Len(history) >= 3
    /\ history[1].status = "current"
    /\ history[1].first_seen < history[1].last_checked

\* The version of the current record, as a set: empty when there is none.
C26_Step ==
    LET before == CurrentVersions(history)
        after == CurrentVersions(history')
    IN  /\ ret' <=> (after # before /\ after # {})
        /\ (HistoricalStep /\ ~PresentBefore) => ~ret'
        /\ (LiveStep /\ args'.version \in before) => ~ret'

\* C26: update returns true exactly when the call changed which version is
\* current (or made one current where none was); it returns false for a
\* historical call that creates a record and for a live call that names the
\* current version.
C26_ReturnTellsCurrentChanged == [][C26_Step]_vars

\* A promotion returned true, in a ledger with a record that was checked
\* again after the day it was first seen.
C26_Witness ==
    /\ branch = "promote" /\ ret
    /\ Len(history) >= 2
    /\ \E i \in Indices(history) : history[i].first_seen < history[i].last_checked

C28_Step ==
    /\ VersionsOf(history) \subseteq VersionsOf(history')
    /\ PresentBefore => Len(history') = Len(history)
    /\ ~PresentBefore => Len(history') = Len(history) + 1
    /\ VersionsOf(history') = VersionsOf(history) \cup {args'.version}

\* C28: no update call removes a record: the set of versions only grows,
\* the length grows by one when the version was absent and stays when it
\* was present.
C28_NothingRemoved == [][C28_Step]_vars

\* A promotion in a ledger of three versions has left all three.
C28_Witness ==
    /\ branch = "promote"
    /\ Len(history) = 3
    /\ Cardinality(VersionsOf(history)) = 3

\* The position of a version in a history without duplicates.
PositionOf(h, version) == CHOOSE i \in Indices(h) : h[i].version = version

SameButStatus(a, b) == [a EXCEPT !.status = b.status] = b

C27_Step ==
    PresentBefore =>
        LET i == PositionOf(history, args'.version)
            k == PositionOf(history', args'.version)
        IN  /\ history'[k].arb = history[i].arb
            /\ history'[k].major = history[i].major
            /\ history'[k].minor = history[i].minor
            /\ history'[k].first_seen = history[i].first_seen
            /\ history'[k].last_checked = today'
            /\ \A j \in Indices(history) :
                  j # i =>
                     \E n \in Indices(history') :
                         /\ n # k
                         /\ SameButStatus(history[j], history'[n])
            /\ branch' # "promote" =>
                  /\ k = i
                  /\ history' = [history EXCEPT ![i].last_checked = today']

\* C27: a call whose version is already in history leaves that record's
\* arb, major, minor and first_seen as they were, whatever values the call
\* supplies, and changes nothing but the status of the other records; the
\* matched record gets last_checked, and its status and place change only
\* on promotion.
C27_KnownVersionKeepsAnalysis == [][C27_Step]_vars

\* A promotion was asked with an analysis other than the one on record.
C27_Witness ==
    /\ branch = "promote"
    /\ history[1].version = args.version
    /\ history[1].arb # args.arb
    /\ history[1].major # args.major
    /\ Len(history) >= 2

\* The versions passed to the invocations that have saved.
Saved ==
    writers.passed \ {writers.inv[w].version[1] :
                        w \in {v \in Writers : writers.inv[v].pc = "loaded"}}

\* C29: when the invocations on a ledger file do not overlap, none of their
\* observations is lost: the saved history holds one record, and only one,
\* for each version passed to an invocation. The load-modify-save takes no
\* lock, so this rests on the invocations being run one at a time.
C29_NoObservationLost ==
    /\ \A version \in Saved :
          Cardinality({i \in Indices(ledger_file.history) :
                          ledger_file.history[i].version = version}) = 1
    /\ (\A w \in Writers : writers.inv[w].pc = "idle") =>
          /\ VersionsOf(ledger_file.history) = writers.passed
          /\ Len(ledger_file.history) = Cardinality(writers.passed)

\* Each of the two processes has completed an invocation, with different
\* versions, and both versions are in the file.
C29_Witness ==
    /\ \A w \in Writers : writers.inv[w].pc = "idle"
    /\ writers.inv["w1"].version # None
    /\ writers.inv["w2"].version # None
    /\ writers.inv["w1"].version # writers.inv["w2"].version
    /\ Len(ledger_file.history) = 2

Parsed == pairs # <<>>

\* The lines of the named section: after its first header, before the
\* next header.
InSection(j) ==
    \E i \in 1..Len(ini) :
        /\ ini[i].kind = "section"
        /\ lower(ini[i].name) = section_name
        /\ \A h \in 1..(i - 1) :
              ~(ini[h].kind = "section" /\ lower(ini[h].name) = section_name)
        /\ i < j
        /\ j <= Len(ini)
        /\ \A h \in (i + 1)..j : ini[h].kind = "kv"

IsUrlLine(j) == ini[j].kind = "kv" /\ lower(ini[j].key) = "url"

IsVersionLine(j) == ini[j].kind = "kv" /\ lower(ini[j].key) = "version"

\* Whether version line j is passed over when looking for the line a url
\* is paired with: never, or only when its value is empty.
PassedOver(j, blanks) == blanks /\ strip(ini[j].value) = <<>>

PairsWellFormed(blanks) ==
    Parsed =>
      LET out == pairs[1].results IN
        /\ \A a, b \in 1..Len(out) :
              a # b => /\ out[a].version # out[b].version
                       /\ out[a].url_line # out[b].url_line
        /\ \A a \in 1..Len(out) :
              LET r == out[a] IN
                /\ InSection(r.url_line)
                /\ InSection(r.version_line)
                /\ IsUrlLine(r.url_line)
                /\ IsVersionLine(r.version_line)
                /\ r.url = strip(ini[r.url_line].value)
                /\ r.version = strip(ini[r.version_line].value)
                /\ r.url_line < r.version_line
                /\ \A j \in (r.url_line + 1)..(r.version_line - 1) :
                      /\ ~IsUrlLine(j)
                      /\ IsVersionLine(j) => PassedOver(j, blanks)
        /\ Len(out) <= pairs[1].max_versions

\* C30 as stated: the pairs have distinct versions, each comes from a url
\* line and the next version line after it in the named section, no url
\* line serves two pairs, and there are at most max_versions pairs.
C30_PairedWithNextVersionLine == PairsWellFormed(FALSE)

\* C30: parse_ini_section returns pairs with distinct versions; each pair
\* comes from a url line of the named section and the next version line
\* after it whose value is not empty, with no other url line between the
\* two; no url line serves two pairs; nothing after the next section header
\* is used; and for max_versions >= 1 at most max_versions pairs are returned.
C30_PairedWithNextNonEmptyVersionLine == PairsWellFormed(TRUE)

\* The named section holds two url/version pairs of different versions
\* and a following section; with max_versions 1 only the first is returned.
C30_Witness ==
    /\ Parsed
    /\ pairs[1].max_versions = 1
    /\ Len(pairs[1].results) = 1
    /\ \E j \in 1..Len(ini) :
          /\ j > pairs[1].results[1].version_line
          /\ InSection(j)
          /\ IsVersionLine(j)
          /\ strip(ini[j].value) \notin {<<>>, pairs[1].results[1].version}
          /\ IsUrlLine(j - 1)
          /\ strip(ini[j - 1].value) # <<>>

====
